---- MODULE Spec2Model ----
(***************************************************************************)
(* A model of the research-paper pipeline of algorand_BYOP:                *)
(*   fetch_paper (Extract_paper_data.py), extract_text_from_file           *)
(*   (Summarizer_of_data.py), the ARC19 class (arc19.py), the CLI pipeline  *)
(*   (main.py), the dashboard pipeline (app.py) and the parallel and async  *)
(*   agents (Agents/main.py).                                               *)
(* Each component has its own variables and its own specification; a       *)
(* specification leaves the variables of the other components unchanged.   *)
(***************************************************************************)
EXTENDS Integers, Sequences, FiniteSets, TLC

(***************************************************************************)
(* Bounds of the model.                                                    *)
(***************************************************************************)
\* pdf_urls are 1..MaxUrl
MaxUrl == 3
\* longest result list the arXiv client returns in the model
MaxResultsLen == 2
\* largest max_results argument of fetch_paper
MaxResultsArg == 2
\* largest start_index argument of fetch_paper
MaxStartIndex == 1
\* number of fetch_paper calls in one behaviour
MaxCalls == 2
\* multihash digests are 1..MaxDigest
MaxDigest == 2
\* ARC19 instances (accounts) are 1..MaxAccount
MaxAccount == 2
\* number of create_asset calls in one behaviour
MaxAssetCalls == 2
\* number of reserve_address_from_cid calls in one behaviour
MaxReserveCalls == 2
\* longest full text of a paper, in characters
MaxTextLen == 3
\* most papers in one content file
MaxPapers == 2
\* most papers parse_search_results hands to an agent
MaxAgentPapers == 3
\* largest max_workers of a ParallelResearchAgent
MaxWorkers == 2
\* largest semaphore_limit of an AsyncResearchAgent
MaxSemaphore == 2

(***************************************************************************)
(* Generic helpers on sequences.                                           *)
(***************************************************************************)
Range(s) == {s[i] : i \in DOMAIN s}

NoDup(s) == \A i, j \in DOMAIN s : i # j => s[i] # s[j]

Min(a, b) == IF a < b THEN a ELSE b

SeqsUpTo(S, n) == UNION {[1..k -> S] : k \in 0..n}

\* s[from:] of Python, from counted from 0
Slice(s, from) == IF from >= Len(s) THEN <<>> ELSE SubSeq(s, from + 1, Len(s))

\* [x for x in s if Keep(x)]
RECURSIVE FilterSeq(_, _)
FilterSeq(s, keep) ==
    IF s = <<>> THEN <<>>
    ELSE (IF Head(s) \in keep THEN <<Head(s)>> ELSE <<>>) \o FilterSeq(Tail(s), keep)

(***************************************************************************)
(* Variables.                                                              *)
(***************************************************************************)
VARIABLES
    \* ---- fetch_paper (Extract_paper_data.py)
    history,      \* lines of fetched_papers.txt, in file order
    outFile,      \* papers written to save_file, in file order (pdf_urls)
    fpc,          \* position inside fetch_paper: idle, download, write, save
    fetched,      \* fetched_papers, the set loaded at the start of the call
    selected,     \* selected_results of the running call
    fidx,         \* index of the enumerate loop (1-based)
    fcalls,       \* number of fetch_paper calls started
    fraised,      \* how the last call ended: none, ok, ValueError, RequestException
    histAtCall,   \* the history file as it was when the running call started
    oldFile,      \* the output file as it was when the running call started
    allDistinct   \* every result list so far had pairwise distinct pdf_urls

fetchVars == <<history, outFile, fpc, fetched, selected, fidx, fcalls, fraised,
               histAtCall, oldFile, allDistinct>>

VARIABLES
    \* ---- ARC19.create_asset (arc19.py) and the algod node it talks to
    apc,          \* position inside create_asset: idle, built, signed, submitted, confirmed
    atxn,         \* the transaction being created (NoTxn outside a call)
    atxid,        \* tx_id of the running call (0 before send_transaction returns)
    aret,         \* what the last call returned (0: nothing returned)
    araised,      \* the last call ended with an exception
    alog,         \* what the running call has done so far
    acalls,       \* number of create_asset calls started
    sent,         \* transactions the node accepted, by tx_id
    confirmed     \* tx_ids the node confirmed in a block

assetVars == <<apc, atxn, atxid, aret, araised, alog, acalls, sent, confirmed>>

VARIABLES
    \* ---- ARC19.reserve_address_from_cid (arc19.py)
    rlog,         \* the calls made so far: [self, cid, result]
    rraised       \* the last call raised (make_cid or the assertion failed)

reserveVars == <<rlog, rraised>>

VARIABLES
    \* ---- extract_text_from_file (Summarizer_of_data.py) on a file that
    \*      fetch_paper writes
    xpc,          \* writing (the file is open), written, done
    xContent,     \* the characters of the file
    xN,           \* number of papers written to the file
    xResult       \* what extract_text_from_file returned

extractVars == <<xpc, xContent, xN, xResult>>

VARIABLES
    \* ---- the CLI pipeline (main.py) and the dashboard pipeline (app.py,
    \*      run_research_agent), which call the components above
    pipe          \* the locals of the running pipeline, the summaries
                  \* directory, what the dashboard shows, and what the run
                  \* has done so far (see PipeStart)

pipeVars == <<pipe>>

VARIABLES
    \* ---- ParallelResearchAgent.search_and_summarize (Agents/main.py)
    par,          \* the main thread, the pool and the paper tasks
    \* ---- AsyncResearchAgent.search_and_summarize_async (Agents/main.py)
    asy           \* the semaphore, its waiters and the paper tasks

agentVars == <<par, asy>>

VARIABLES
    \* ---- the database tools (Agents/database_tools.py)
    db,             \* the SQLite file: its tables and the rows of papers
    qry,            \* the last query_research_database call and how it ended
    \* ---- get_blockchain_research_topics (latest_topic_gatherer.py)
    top,            \* the call: its position, its requests and how it ended
    \* ---- summarize_text (Summarizer_of_data.py)
    smz             \* the last call: the LLM's answer and what was returned

toolVars == <<db, qry, top, smz>>

vars == <<fetchVars, assetVars, reserveVars, extractVars, pipeVars, agentVars, toolVars>>

(***************************************************************************)
(* fetch_paper                                                             *)
(***************************************************************************)
Urls == 1..MaxUrl

\* load_fetched_papers: the set of non-empty stripped lines of the history file
load_fetched_papers(file) == Range(file)

\* save_fetched_paper: append one line to the history file
save_fetched_paper(file, pdf_url) == Append(file, pdf_url)

\* unique_results: results[start_index:] without the papers already fetched
unique_results_all(results, start_index, fetchedSet) == Slice(results, start_index)

unique_results(results, start_index, fetchedSet) ==
    FilterSeq(Slice(results, start_index), Urls \ fetchedSet)

\* random.shuffle followed by [:max_results]: any arrangement of
\* min(max_results, len) distinct positions of the list
Selections(unique, max_results) ==
    LET k == Min(max_results, Len(unique))
    IN  {[i \in 1..k |-> unique[p[i]]] :
            p \in {q \in [1..k -> DOMAIN unique] : \A i, j \in 1..k : i # j => q[i] # q[j]}}

FetchInit ==
    /\ history = <<>>
    /\ outFile = <<>>
    /\ fpc = "idle"
    /\ fetched = {}
    /\ selected = <<>>
    /\ fidx = 0
    /\ fcalls = 0
    /\ fraised = "none"
    /\ histAtCall = <<>>
    /\ oldFile = <<>>
    /\ allDistinct = TRUE

\* lines 24-49: load the history, search, filter; no results or no new
\* results raise ValueError, which line 98 catches: the call returns and the
\* output file is not opened
FetchCallNoPapers(start_index) ==
    /\ fpc = "idle"
    /\ fcalls < MaxCalls
    /\ \E results \in SeqsUpTo(Urls, MaxResultsLen) :
          /\ unique_results(results, start_index, load_fetched_papers(history)) = <<>>
          /\ allDistinct' = (allDistinct /\ NoDup(results))
    /\ fcalls' = fcalls + 1
    /\ fetched' = load_fetched_papers(history)
    /\ histAtCall' = history
    /\ oldFile' = outFile
    /\ selected' = <<>>
    /\ fidx' = 0
    /\ fraised' = "ValueError"
    /\ UNCHANGED <<history, outFile, fpc>>

\* an open in append mode, which keeps what the file holds
open_append(file) == file

\* line 56: open(save_file, "w") empties the file
open_write(file) == <<>>

\* lines 24-56: load the history, search, filter, shuffle, select, and open
\* the output file in write mode, which empties it
FetchCallSelect(max_results, start_index) ==
    /\ fpc = "idle"
    /\ fcalls < MaxCalls
    /\ \E results \in SeqsUpTo(Urls, MaxResultsLen) :
          LET unique == unique_results(results, start_index, load_fetched_papers(history))
          IN  /\ unique # <<>>
              /\ selected' \in Selections(unique, max_results)
              /\ allDistinct' = (allDistinct /\ NoDup(results))
    /\ fcalls' = fcalls + 1
    /\ fetched' = load_fetched_papers(history)
    /\ histAtCall' = history
    /\ oldFile' = outFile
    /\ outFile' = open_write(outFile)
    /\ fidx' = 1
    /\ fraised' = "none"
    /\ fpc' = "download"
    /\ UNCHANGED history

\* a loop that records the pdf_url as soon as the download succeeded
FetchDownloadOkRecordsFirst ==
    /\ fpc = "download"
    /\ fidx <= Len(selected)
    /\ history' = save_fetched_paper(history, selected[fidx])
    /\ fpc' = "write"
    /\ UNCHANGED <<outFile, fetched, selected, fidx, fcalls, fraised,
                   histAtCall, oldFile, allDistinct>>

\* lines 66-71: requests.get and raise_for_status succeed
FetchDownloadOk ==
    /\ fpc = "download"
    /\ fidx <= Len(selected)
    /\ fpc' = "write"
    /\ UNCHANGED <<history, outFile, fetched, selected, fidx, fcalls, fraised,
                   histAtCall, oldFile, allDistinct>>

\* lines 66-67 raise requests.RequestException, caught at line 96: return
FetchDownloadFails ==
    /\ fpc = "download"
    /\ fidx <= Len(selected)
    /\ fpc' = "idle"
    /\ fraised' = "RequestException"
    /\ UNCHANGED <<history, outFile, fetched, selected, fidx, fcalls,
                   histAtCall, oldFile, allDistinct>>

\* lines 74-85: the metadata and the full text of the paper go to the file
FetchWrite ==
    /\ fpc = "write"
    /\ outFile' = Append(outFile, selected[fidx])
    /\ fpc' = "save"
    /\ UNCHANGED <<history, fetched, selected, fidx, fcalls, fraised,
                   histAtCall, oldFile, allDistinct>>

\* lines 88-94: record the pdf_url in the history file, next paper
FetchSave ==
    /\ fpc = "save"
    /\ history' = save_fetched_paper(history, selected[fidx])
    /\ fidx' = fidx + 1
    /\ fpc' = "download"
    /\ UNCHANGED <<outFile, fetched, selected, fcalls, fraised,
                   histAtCall, oldFile, allDistinct>>

\* the loop is over: the with block closes the file and the call returns
FetchReturn ==
    /\ fpc = "download"
    /\ fidx > Len(selected)
    /\ fpc' = "idle"
    /\ fraised' = "ok"
    /\ UNCHANGED <<history, outFile, fetched, selected, fidx, fcalls,
                   histAtCall, oldFile, allDistinct>>

\* client.results raises (network error, API error): line 100 catches it,
\* the call returns and the output file is not opened
FetchCallSearchFails ==
    /\ fpc = "idle"
    /\ fcalls < MaxCalls
    /\ fcalls' = fcalls + 1
    /\ fetched' = load_fetched_papers(history)
    /\ histAtCall' = history
    /\ oldFile' = outFile
    /\ selected' = <<>>
    /\ fidx' = 0
    /\ fraised' = "Exception"
    /\ UNCHANGED <<history, outFile, fpc, allDistinct>>

\* fetch_paper called with any arguments
FetchCall ==
    \E max_results \in 1..MaxResultsArg, start_index \in 0..MaxStartIndex :
        \/ FetchCallNoPapers(start_index)
        \/ FetchCallSelect(max_results, start_index)

\* the steps of a running call
FetchStep ==
    \/ FetchDownloadOk
    \/ FetchDownloadFails
    \/ FetchWrite
    \/ FetchSave
    \/ FetchReturn

(***************************************************************************)
(* CIDs, multihashes and addresses (arc19.py lines 68-96)                  *)
(***************************************************************************)
Digests == 1..MaxDigest

\* digest length in bytes of the hash functions of the model
HashLen(name) == IF name = "sha2-256" THEN 32 ELSE 64

\* a CID string: version, codec and multihash (hash function name, digest)
Cids == [version : {0, 1}, codec : {"dag-pb", "raw"},
         hash : {"sha2-256", "sha2-512"}, digest : Digests]

\* make_cid(cid).multihash: the hash function code and the digest
make_cid_multihash(cid) == <<cid.hash, cid.digest>>

\* multihash.decode: name, length and digest of a multihash
multihash_decode(mh) == [name |-> mh[1], length |-> HashLen(mh[1]), digest |-> mh[2]]

\* the 4-byte checksum algosdk appends to a public key
Checksum(bytes) == (bytes.val * 7 + bytes.len) % 16

\* encoding.encode_address: the bytes followed by their checksum
encode_address(bytes) == [key |-> bytes, chk |-> Checksum(bytes)]

\* encoding.is_valid_address: 58 characters, i.e. a 32-byte key, with the
\* right checksum
is_valid_address(addr) == addr.key.len = 32 /\ addr.chk = Checksum(addr.key)

\* a reserve address that also depends on the instance's account
reserve_address_with_account(self, cid) ==
    LET decoded_cid == multihash_decode(make_cid_multihash(cid))
    IN  encode_address([len |-> decoded_cid.length, val |-> decoded_cid.digest + self])

\* lines 69-70: the address made of the digest of the CID's multihash
reserve_address(self, cid) ==
    LET decoded_cid == multihash_decode(make_cid_multihash(cid))
    IN  encode_address([len |-> decoded_cid.length, val |-> decoded_cid.digest])

Accounts == 1..MaxAccount

ReserveInit ==
    /\ rlog = <<>>
    /\ rraised = FALSE

\* lines 68-72 with a CID whose address passes the assertion of line 71
ReserveCallReturns ==
    /\ Len(rlog) < MaxReserveCalls
    /\ \E self \in Accounts, cid \in Cids :
          /\ is_valid_address(reserve_address(self, cid))
          /\ rlog' = Append(rlog, [self |-> self, cid |-> cid,
                                   result |-> reserve_address(self, cid)])
    /\ rraised' = FALSE

\* lines 68-71 with a CID whose address fails the assertion: AssertionError
ReserveCallRaises ==
    /\ Len(rlog) < MaxReserveCalls
    /\ \E self \in Accounts, cid \in Cids :
          ~ is_valid_address(reserve_address(self, cid))
    /\ rraised' = TRUE
    /\ UNCHANGED rlog

(***************************************************************************)
(* ARC19.create_asset (arc19.py lines 118-141)                             *)
(***************************************************************************)
NoTxn == [sender |-> 0]

AssetInit ==
    /\ apc = "idle"
    /\ atxn = NoTxn
    /\ atxid = 0
    /\ aret = 0
    /\ araised = FALSE
    /\ alog = <<>>
    /\ acalls = 0
    /\ sent = <<>>
    /\ confirmed = {}

\* lines 120-133: the unsigned asset-creation transaction
AssetCreateTxn(self, metadata_hash, reserve_address_arg, url) ==
    [sender |-> self, total |-> 1, decimals |-> 0, manager |-> self,
     clawback |-> self, reserve |-> reserve_address_arg, url |-> url,
     metadata_hash |-> metadata_hash]

\* create_asset is entered and builds the transaction
AssetCall(self, metadata_hash, reserve_address_arg, url) ==
    /\ apc = "idle"
    /\ acalls' = acalls + 1
    /\ atxn' = AssetCreateTxn(self, metadata_hash, reserve_address_arg, url)
    /\ atxid' = 0
    /\ aret' = 0
    /\ araised' = FALSE
    /\ alog' = <<"build">>
    /\ apc' = "built"
    /\ UNCHANGED <<sent, confirmed>>

\* line 135: sign with the account's private key
AssetSign ==
    /\ apc = "built"
    /\ alog' = Append(alog, "sign")
    /\ apc' = "signed"
    /\ UNCHANGED <<atxn, atxid, aret, araised, acalls, sent, confirmed>>

\* line 136: the node accepts the transaction and answers with its id
AssetSubmitOk ==
    /\ apc = "signed"
    /\ sent' = Append(sent, atxn)
    /\ atxid' = Len(sent) + 1
    /\ alog' = Append(alog, "submit")
    /\ apc' = "submitted"
    /\ UNCHANGED <<atxn, aret, araised, acalls, confirmed>>

\* line 136 raises (node unreachable, transaction rejected): the exception
\* leaves create_asset
AssetSubmitFails ==
    /\ apc = "signed"
    /\ araised' = TRUE
    /\ apc' = "idle"
    /\ UNCHANGED <<atxn, atxid, aret, alog, acalls, sent, confirmed>>

\* line 137: wait_for_confirmation returns once the node has the
\* transaction in a confirmed round
AssetWaitOk ==
    /\ apc = "submitted"
    /\ confirmed' = confirmed \cup {atxid}
    /\ alog' = Append(alog, "wait")
    /\ apc' = "confirmed"
    /\ UNCHANGED <<atxn, atxid, aret, araised, acalls, sent>>

\* line 137 raises (pool error, timeout): the exception leaves create_asset
AssetWaitFails ==
    /\ apc = "submitted"
    /\ araised' = TRUE
    /\ apc' = "idle"
    /\ UNCHANGED <<atxn, atxid, aret, alog, acalls, sent, confirmed>>

\* a create_asset that returns the id as soon as the node accepted it
ReturnReadyNoWait == apc \in {"submitted", "confirmed"}

\* line 141 is reached after line 137 has returned
ReturnReady == apc = "confirmed"

\* lines 139-141: return tx_id
AssetReturn ==
    /\ ReturnReady
    /\ aret' = atxid
    /\ alog' = Append(alog, "return")
    /\ apc' = "idle"
    /\ UNCHANGED <<atxn, atxid, araised, acalls, sent, confirmed>>

\* the steps of a running create_asset call
AssetStep ==
    \/ AssetSign
    \/ AssetSubmitOk
    \/ AssetSubmitFails
    \/ AssetWaitOk
    \/ AssetWaitFails
    \/ AssetReturn

\* lines 104-115: sha256 of the JSON text of the metadata
create_metadata(self, asset_name, description, ipfs_hash) ==
    [sha256 |-> <<asset_name, description, <<"ipfs://", ipfs_hash>>, self, "application/pdf">>]

\* lines 84-96: the template URL; the assertion of line 95 holds for
\* versions 0 and 1 and lower-case codec and hash names
create_url_from_cid(cid) ==
    <<"template-ipfs://{ipfscid:", cid.version, cid.codec, "reserve", cid.hash, "}">>

\* arc19.py lines 144-170: create_asset called for a pinned file
AssetCallAny ==
    \E self \in Accounts, cid \in Cids :
        /\ acalls < MaxAssetCalls
        /\ is_valid_address(reserve_address(self, cid))
        /\ AssetCall(self, create_metadata(self, "Blockchain PDF", "Research paper blockchain", cid),
                     reserve_address(self, cid), create_url_from_cid(cid))

(***************************************************************************)
(* The content file: fetch_paper writes it (Extract_paper_data.py lines    *)
(* 77-85), extract_text_from_file and extract_paper_title read it          *)
(* (Summarizer_of_data.py lines 41-78).  Characters are numbers: what the   *)
(* regular expressions tell apart is newline, other white space, and the   *)
(* rest; the word "Title:" and each paper's title are characters of their  *)
(* own.                                                                    *)
(***************************************************************************)
NL == 0
SP == 1
EQ == 2
CH == 3
TITLE == 4
TitleChar(k) == 10 + k

\* \s of the regular expressions
IsSpace(c) == c \in {NL, SP}

\* what a PDF's text can be: any characters, blank lines included
Texts == SeqsUpTo({NL, SP, CH}, MaxTextLen)

\* lines 77-85: the separator line, "Paper i", the four metadata lines,
\* "Full Content:", the text and the closing separator line
PaperBlock(index, title, text) ==
    <<NL, EQ, NL>> \o <<CH, NL>> \o <<TITLE, SP, title, NL>> \o <<CH, NL>>
    \o <<CH, NL>> \o <<CH, NL>> \o <<NL, CH, NL>> \o text \o <<NL, EQ, NL>>

MaxOf(S) == CHOOSE m \in S : \A k \in S : k <= m

\* where a match of \n\n\s*\n that starts at i ends (0: no match at i):
\* \s* is greedy, so the match ends at the last newline of the white space
\* that follows the two newlines
MatchEnd(s, i) ==
    IF i + 2 <= Len(s) /\ s[i] = NL /\ s[i + 1] = NL
    THEN LET spaces == {r \in (i + 1)..Len(s) : \A k \in (i + 2)..r : IsSpace(s[k])}
             nls    == {k \in (i + 2)..MaxOf(spaces) : s[k] = NL}
         IN  IF nls = {} THEN 0 ELSE MaxOf(nls)
    ELSE 0

\* re.split(r'\n\n\s*\n', s): the pieces between the leftmost matches
RECURSIVE re_split(_, _, _)
re_split(s, start, i) ==
    IF i > Len(s) THEN <<SubSeq(s, start, Len(s))>>
    ELSE IF MatchEnd(s, i) > 0
         THEN <<SubSeq(s, start, i - 1)>> \o re_split(s, MatchEnd(s, i) + 1, MatchEnd(s, i) + 1)
         ELSE re_split(s, start, i + 1)

\* str.strip
RECURSIVE lstrip(_)
lstrip(s) == IF s # <<>> /\ IsSpace(Head(s)) THEN lstrip(Tail(s)) ELSE s

RECURSIVE rstrip(_)
rstrip(s) == IF s # <<>> /\ IsSpace(s[Len(s)]) THEN rstrip(SubSeq(s, 1, Len(s) - 1)) ELSE s

strip(s) == rstrip(lstrip(s))

\* lines 51-56: the stripped, non-empty sections
RECURSIVE NonEmptyStripped(_)
NonEmptyStripped(papers) ==
    IF papers = <<>> THEN <<>>
    ELSE (IF strip(Head(papers)) # <<>> THEN <<strip(Head(papers))>> ELSE <<>>)
         \o NonEmptyStripped(Tail(papers))

\* lines 45-58: split, drop the first section, strip, keep the non-empty
extract_text_from_file(content) == NonEmptyStripped(Tail(re_split(content, 1, 1)))

\* lines 72-78: ^Title:\s*(.*) with re.MULTILINE: the first line that starts
\* with "Title:"; \s* skips white space (newlines too), (.*) is the rest of
\* that line, stripped; no match gives "Untitled_Paper" (the empty sequence
\* stands for it only where no title is empty)
TitleStarts(s) == {i \in DOMAIN s : s[i] = TITLE /\ (i = 1 \/ s[i - 1] = NL)}

RECURSIVE UpToNewline(_)
UpToNewline(s) ==
    IF s = <<>> \/ Head(s) = NL THEN <<>> ELSE <<Head(s)>> \o UpToNewline(Tail(s))

Untitled_Paper == <<CH>>

extract_paper_title(paper_content) ==
    IF TitleStarts(paper_content) = {} THEN Untitled_Paper
    ELSE LET i == CHOOSE m \in TitleStarts(paper_content) :
                      \A k \in TitleStarts(paper_content) : m <= k
         IN  strip(UpToNewline(lstrip(SubSeq(paper_content, i + 1, Len(paper_content)))))

ExtractInit ==
    /\ xpc = "writing"
    /\ xContent = <<>>
    /\ xN = 0
    /\ xResult = <<>>

\* fetch_paper lines 58-85: one more paper goes to the open file
XWritePaper ==
    /\ xpc = "writing"
    /\ xN < MaxPapers
    /\ \E text \in Texts :
          xContent' = xContent \o PaperBlock(xN + 1, TitleChar(xN + 1), text)
    /\ xN' = xN + 1
    /\ UNCHANGED <<xpc, xResult>>

\* fetch_paper leaves the with block of line 56: the file is closed
XClose ==
    /\ xpc = "writing"
    /\ xpc' = "written"
    /\ UNCHANGED <<xContent, xN, xResult>>

\* extract_text_from_file(save_file)
XExtract ==
    /\ xpc = "written"
    /\ xResult' = extract_text_from_file(xContent)
    /\ xpc' = "done"
    /\ UNCHANGED <<xContent, xN>>

(***************************************************************************)
(* The pipelines: main.py lines 10-77 (mode "cli") and app.py lines        *)
(* 104-272 (mode "dash").                                                  *)
(***************************************************************************)
\* the full text of the paper behind a pdf_url: a paper without blank
\* lines, one with a run of blank lines inside, one that is a blank line
TextOf(pdf_url) ==
    IF pdf_url % 3 = 1 THEN <<CH>>
    ELSE IF pdf_url % 3 = 2 THEN <<CH, NL, NL, NL, CH>>
    ELSE <<NL>>

\* the characters of the content file that holds the given papers
RECURSIVE FileContentFrom(_, _)
FileContentFrom(papers, index) ==
    IF papers = <<>> THEN <<>>
    ELSE PaperBlock(index, TitleChar(Head(papers)), TextOf(Head(papers)))
         \o FileContentFrom(Tail(papers), index + 1)

FileContent(papers) == FileContentFrom(papers, 1)

\* what upload_metadata returns when the pinning service does not answer 200
NoCid == [version |-> 0, codec |-> "none", hash |-> "none", digest |-> 0]

\* the CID the pinning service answers with: the hash of the file's content
CidOfFile(file) ==
    [version |-> 0, codec |-> "dag-pb", hash |-> "sha2-256",
     digest |-> IF file = <<>> THEN 0 ELSE file[1]]

\* a summary PDF a run that crashed left in the summaries directory
LeftOver == <<EQ>>

\* os.listdir: the files in any order
Listings(files) ==
    {l \in [1..Cardinality(files) -> files] : Range(l) = files}

\* the localnet default account of algokit_utils (arc19.py line 31)
DefaultAccount == CHOOSE a \in Accounts : TRUE

Pending == [k \in 1..6 |-> "pending"]

\* the state a pipeline starts in
PipeStart(mode, max_results, leftOver) ==
    [mode |-> mode,                  \* "cli" or "dash"
     ppc |-> "start",                \* position in the script
     max_results |-> max_results,
     paper_contents |-> <<>>,
     i |-> 0,                        \* index of the summarise loop
     dirExists |-> leftOver,         \* the summaries directory exists
     dirFiles |-> IF leftOver THEN {LeftOver} ELSE {},
     research_paper_file_names |-> <<>>,
     f |-> 0,                        \* index of the pin-and-mint loop
     cid |-> NoCid,
     metadata_hash |-> <<>>,
     reserve_address |-> <<>>,
     url |-> <<>>,
     links |-> <<>>,                 \* transaction links appended or printed
     step |-> Pending,               \* status of the six dashboard steps
     shown |-> [k \in 1..6 |-> 0],   \* the number each step's text shows
     \* what the run has done so far
     fetchedNow |-> 0,               \* papers fetch_paper wrote in this run
     written |-> 0,                  \* summary PDFs written in this run
     events |-> <<>>,                \* the stages, in the order they ran
     pinned |-> {},                  \* files whose pin returned a CID
     refused |-> {},                 \* files whose pin returned None
     metadataFor |-> {},             \* files create_metadata was called for
     builtFor |-> {},                \* files create_asset was called for
     minted |-> {}]                  \* files whose create_asset returned

\* an exception leaves the script: main.py dies with a traceback, app.py's
\* handler (lines 269-272) shows the error in the first step's place
Raised(q) ==
    IF q.mode = "cli" THEN [q EXCEPT !.ppc = "crashed"]
    ELSE [q EXCEPT !.ppc = "error", !.step[1] = "error"]

\* the dashboard shows a step's status; the CLI has no such display
Show(q, k, status, n) ==
    IF q.mode = "cli" THEN q
    ELSE [q EXCEPT !.step[k] = status, !.shown[k] = n]

\* papers the fetch_paper call that just returned wrote to the content file
PapersWritten ==
    IF fraised \in {"ValueError", "Exception"} THEN 0 ELSE Len(outFile)

\* main.py line 15, app.py lines 110-115: fetch_paper is called
PFetchCall ==
    /\ pipe.ppc = "start"
    /\ \/ FetchCallNoPapers(0)
       \/ FetchCallSelect(pipe.max_results, 0)
       \/ FetchCallSearchFails
    /\ pipe' = [Show(pipe, 1, "running", 0) EXCEPT
                   !.ppc = "fetching", !.events = Append(@, "fetch")]
    /\ UNCHANGED <<assetVars, reserveVars, extractVars, agentVars, toolVars>>

\* fetch_paper runs
PFetchStep ==
    /\ pipe.ppc = "fetching"
    /\ FetchStep
    /\ UNCHANGED <<assetVars, reserveVars, extractVars, pipeVars, agentVars, toolVars>>

\* the text the dashboard shows when fetch_paper has returned
Step1Shown(q) == q.max_results

\* app.py lines 117-118: fetch_paper has returned
PFetchReturned ==
    /\ pipe.ppc = "fetching"
    /\ fpc = "idle"
    /\ pipe' = [Show(pipe, 1, "completed", Step1Shown(pipe)) EXCEPT
                   !.ppc = "extract", !.fetchedNow = PapersWritten]
    /\ UNCHANGED <<fetchVars, assetVars, reserveVars, extractVars, agentVars, toolVars>>

\* main.py lines 16-19, app.py lines 121-140: extract_text_from_file; with
\* no contents the CLI goes on to the directory, the dashboard returns
PExtract ==
    /\ pipe.ppc = "extract"
    /\ LET contents == extract_text_from_file(FileContent(outFile))
           q == [pipe EXCEPT !.paper_contents = contents, !.i = 1,
                             !.events = Append(@, "extract")]
       IN  pipe' = IF contents # <<>>
                   THEN [Show(Show(q, 2, "completed", Len(contents)), 3, "running", 0)
                            EXCEPT !.ppc = "summarise"]
                   ELSE IF q.mode = "cli" THEN [q EXCEPT !.ppc = "listdir"]
                   ELSE [Show(q, 2, "error", 0) EXCEPT !.ppc = "done"]
    /\ UNCHANGED <<fetchVars, assetVars, reserveVars, extractVars, agentVars, toolVars>>

\* main.py lines 27-33, app.py lines 149-166: title and summary of paper i
\* (summarize_text returns a string whatever the LLM does)
PSummarise ==
    /\ pipe.ppc = "summarise"
    /\ pipe.i <= Len(pipe.paper_contents)
    /\ pipe' = [pipe EXCEPT !.ppc = "savepdf"]
    /\ UNCHANGED <<fetchVars, assetVars, reserveVars, extractVars, agentVars, toolVars>>

\* main.py line 36, app.py lines 169-170: save_to_pdf writes
\* summaries/<title>.pdf, creating the directory when it is missing
PSavePdfOk ==
    /\ pipe.ppc = "savepdf"
    /\ pipe' = [pipe EXCEPT
                   !.dirExists = TRUE,
                   !.dirFiles = @ \cup {extract_paper_title(pipe.paper_contents[pipe.i])},
                   !.written = @ + 1,
                   !.events = Append(@, "pdf"),
                   !.i = @ + 1,
                   !.ppc = "summarise"]
    /\ UNCHANGED <<fetchVars, assetVars, reserveVars, extractVars, agentVars, toolVars>>

\* save_to_pdf raises (Summarizer_of_data.py lines 93-109: the import, the
\* page size or the build fails).  As the file stands its line 95 reads the
\* name `letter`, which the module never binds, so every call ends here;
\* PSavePdfOk keeps the outcome of a save_to_pdf that builds its file, so
\* that the stages after the summaries are examined too.
PSavePdfRaises ==
    /\ pipe.ppc = "savepdf"
    /\ pipe' = Raised(pipe)
    /\ UNCHANGED <<fetchVars, assetVars, reserveVars, extractVars, agentVars, toolVars>>

\* a summarise loop that is left after its first paper
SummariesDoneEarly(q) == q.i > 1

\* main.py line 21, app.py line 147: the for loop over paper_contents ends
SummariesDone(q) == q.i > Len(q.paper_contents)

\* app.py lines 172-179: the loop is over
PSummariseDone ==
    /\ pipe.ppc = "summarise"
    /\ SummariesDone(pipe)
    /\ pipe' = [Show(Show(pipe, 3, "completed", pipe.written), 4, "running", 0)
                   EXCEPT !.ppc = "listdir"]
    /\ UNCHANGED <<fetchVars, assetVars, reserveVars, extractVars, agentVars, toolVars>>

\* main.py line 40, app.py lines 182-194: the files of the summaries
\* directory; the dashboard shows step 4 as completed right here
PListDir ==
    /\ pipe.ppc = "listdir"
    /\ pipe.dirExists
    /\ \E names \in Listings(pipe.dirFiles) :
          pipe' = [Show(Show(pipe, 4, "completed", Len(names)), 5, "running", 0)
                      EXCEPT !.research_paper_file_names = names,
                             !.f = 1, !.ppc = "loop"]
    /\ UNCHANGED <<fetchVars, assetVars, reserveVars, extractVars, agentVars, toolVars>>

\* os.listdir raises FileNotFoundError: there is no summaries directory
PListDirRaises ==
    /\ pipe.ppc = "listdir"
    /\ ~ pipe.dirExists
    /\ pipe' = Raised(pipe)
    /\ UNCHANGED <<fetchVars, assetVars, reserveVars, extractVars, agentVars, toolVars>>

\* the file of the running iteration of the pin-and-mint loop
CurrentFile == pipe.research_paper_file_names[pipe.f]

\* main.py lines 44-46, app.py lines 199-202, arc19.py lines 59-62: a new
\* ARC19, and the pinning service answers 200 with the file's CID
PUploadCid ==
    /\ pipe.ppc = "loop"
    /\ pipe.f <= Len(pipe.research_paper_file_names)
    /\ pipe' = [pipe EXCEPT !.cid = CidOfFile(CurrentFile),
                            !.pinned = @ \cup {CurrentFile},
                            !.events = Append(@, "pin"),
                            !.ppc = "gotcid"]
    /\ UNCHANGED <<fetchVars, assetVars, reserveVars, extractVars, agentVars, toolVars>>

\* arc19.py lines 64-66: any other status, upload_metadata returns None
PUploadNone ==
    /\ pipe.ppc = "loop"
    /\ pipe.f <= Len(pipe.research_paper_file_names)
    /\ pipe' = [pipe EXCEPT !.cid = NoCid,
                            !.refused = @ \cup {CurrentFile},
                            !.events = Append(@, "pin"),
                            !.ppc = "gotcid"]
    /\ UNCHANGED <<fetchVars, assetVars, reserveVars, extractVars, agentVars, toolVars>>

\* ARC19() or upload_metadata raises (no API key, no node, no network)
PUploadRaises ==
    /\ pipe.ppc = "loop"
    /\ pipe.f <= Len(pipe.research_paper_file_names)
    /\ pipe' = Raised(pipe)
    /\ UNCHANGED <<fetchVars, assetVars, reserveVars, extractVars, agentVars, toolVars>>

\* a test that lets every answer of the pinning service through
CidTestAlways(c) == TRUE

\* main.py line 48, app.py line 204: if cid
CidTest(c) == c # NoCid

\* main.py lines 74-75: else, on to the next file
PNoCid ==
    /\ pipe.ppc = "gotcid"
    /\ ~ CidTest(pipe.cid)
    /\ pipe' = [pipe EXCEPT !.f = @ + 1, !.ppc = "loop"]
    /\ UNCHANGED <<fetchVars, assetVars, reserveVars, extractVars, agentVars, toolVars>>

\* main.py line 50, app.py line 206: desc
Description(mode) ==
    IF mode = "cli" THEN "Research paper" ELSE "Research paper summary"

\* main.py lines 49-56, app.py lines 205-213: create_metadata
PMetadata ==
    /\ pipe.ppc = "gotcid"
    /\ CidTest(pipe.cid)
    /\ pipe' = [pipe EXCEPT
                   !.metadata_hash = create_metadata(DefaultAccount, CurrentFile,
                                                     Description(pipe.mode), pipe.cid),
                   !.metadataFor = @ \cup {CurrentFile},
                   !.ppc = "reserve"]
    /\ UNCHANGED <<fetchVars, assetVars, reserveVars, extractVars, agentVars, toolVars>>

\* a loop that keeps the CID the first file of the listing was pinned under
ReserveCidOfFirstFile(q) == CidOfFile(q.research_paper_file_names[1])

\* main.py lines 58-60, app.py lines 216-217: the cid argument is the value
\* upload_metadata returned in this iteration
ReserveCid(q) == q.cid

\* main.py lines 58-60, app.py lines 216-217: reserve address and URL (the
\* pinning service's CIDs carry sha2-256 digests, for which the assertion
\* of arc19.py line 71 holds)
PReserveUrl ==
    /\ pipe.ppc = "reserve"
    /\ is_valid_address(reserve_address(DefaultAccount, ReserveCid(pipe)))
    /\ pipe' = [pipe EXCEPT
                   !.reserve_address = reserve_address(DefaultAccount, ReserveCid(pipe)),
                   !.url = create_url_from_cid(ReserveCid(pipe)),
                   !.ppc = "mint"]
    /\ UNCHANGED <<fetchVars, assetVars, reserveVars, extractVars, agentVars, toolVars>>

\* main.py lines 62-66, app.py lines 220-224: create_asset is called
PMint ==
    /\ pipe.ppc = "mint"
    /\ AssetCall(DefaultAccount, pipe.metadata_hash, pipe.reserve_address, pipe.url)
    /\ pipe' = [pipe EXCEPT !.builtFor = @ \cup {CurrentFile},
                            !.events = Append(@, "build"),
                            !.ppc = "minting"]
    /\ UNCHANGED <<fetchVars, reserveVars, extractVars, agentVars, toolVars>>

\* create_asset runs
PMintStep ==
    /\ pipe.ppc = "minting"
    /\ AssetStep
    /\ UNCHANGED <<fetchVars, reserveVars, extractVars, pipeVars, agentVars, toolVars>>

\* main.py line 69, app.py lines 226-228: create_asset returned, the link
\* is printed or appended
PMintReturned ==
    /\ pipe.ppc = "minting"
    /\ apc = "idle"
    /\ ~ araised
    /\ pipe' = [pipe EXCEPT !.links = Append(@, aret),
                            !.minted = @ \cup {CurrentFile},
                            !.f = @ + 1,
                            !.ppc = "loop"]
    /\ UNCHANGED <<fetchVars, assetVars, reserveVars, extractVars, agentVars, toolVars>>

\* create_asset raised
PMintRaised ==
    /\ pipe.ppc = "minting"
    /\ apc = "idle"
    /\ araised
    /\ pipe' = Raised(pipe)
    /\ UNCHANGED <<fetchVars, assetVars, reserveVars, extractVars, agentVars, toolVars>>

\* main.py line 77, app.py lines 230-252: the loop is over; the directory
\* is removed, and the dashboard removes the content file too
PFinish ==
    /\ pipe.ppc = "loop"
    /\ pipe.f > Len(pipe.research_paper_file_names)
    /\ pipe' = [Show(Show(pipe, 5, "completed", Len(pipe.links)), 6, "completed", 0)
                   EXCEPT !.dirExists = FALSE, !.dirFiles = {}, !.ppc = "done"]
    /\ outFile' = IF pipe.mode = "dash" THEN <<>> ELSE outFile
    /\ UNCHANGED <<history, fpc, fetched, selected, fidx, fcalls, fraised,
                   histAtCall, oldFile, allDistinct>>
    /\ UNCHANGED <<assetVars, reserveVars, extractVars, agentVars, toolVars>>

(***************************************************************************)
(* ParallelResearchAgent.search_and_summarize (Agents/main.py lines        *)
(* 234-286) on a ThreadPoolExecutor with max_workers threads.              *)
(***************************************************************************)
AgentPapers == 1..MaxAgentPapers

\* the agent has searched and parsed n papers (lines 236-247)
ParStart(max_workers, n) ==
    [mpc |-> "start",                \* main thread: start, submit, collect, returned, raised
     max_workers |-> max_workers,
     n |-> n,
     next |-> 1,                     \* next paper to submit
     task |-> [t \in AgentPapers |-> "none"],
                                     \* none, queued, summarise, pdf, done
     created |-> {},                 \* papers whose create_pdf built the file
     yielded |-> {},                 \* futures as_completed has yielded
     pdf_files |-> <<>>]

ParIdle == par = ParStart(1, 0)

\* papers a worker thread is processing
ParRunning(q) == {t \in AgentPapers : q.task[t] \in {"summarise", "pdf"}}

\* line 250: ThreadPoolExecutor(max_workers) raises ValueError for
\* max_workers <= 0, and the method with it
ParPoolRaises ==
    /\ par.mpc = "start"
    /\ par.max_workers <= 0
    /\ par' = [par EXCEPT !.mpc = "raised"]

\* line 250: the pool is created
ParPool ==
    /\ par.mpc = "start"
    /\ par.max_workers > 0
    /\ par' = [par EXCEPT !.mpc = "submit"]

\* lines 252-255: executor.submit for the next paper
ParSubmit ==
    /\ par.mpc = "submit"
    /\ par.next <= par.n
    /\ par' = [par EXCEPT !.task[par.next] = "queued", !.next = @ + 1]

\* lines 252-255: every paper is submitted
ParSubmitted ==
    /\ par.mpc = "submit"
    /\ par.next > par.n
    /\ par' = [par EXCEPT !.mpc = "collect"]

\* a pool that starts a thread for every queued task
WorkerFreeAlways(q) == TRUE

\* the pool has at most max_workers threads, each runs one task at a time
WorkerFree(q) == Cardinality(ParRunning(q)) < q.max_workers

\* a worker thread takes a queued task: process_single_paper, lines 273-276
ParTaskStart(t) ==
    /\ par.task[t] = "queued"
    /\ WorkerFree(par)
    /\ par' = [par EXCEPT !.task[t] = "summarise"]

\* line 276: summarize_paper returns (it catches what the LLM raises)
ParTaskSummarised(t) ==
    /\ par.task[t] = "summarise"
    /\ par' = [par EXCEPT !.task[t] = "pdf"]

\* lines 279-286: create_pdf builds the file, the task returns filename
ParTaskPdfOk(t) ==
    /\ par.task[t] = "pdf"
    /\ par' = [par EXCEPT !.task[t] = "done", !.created = @ \cup {t}]

\* lines 279-286: create_pdf fails, logs the error and returns; the task
\* returns filename all the same
ParTaskPdfFails(t) ==
    /\ par.task[t] = "pdf"
    /\ par' = [par EXCEPT !.task[t] = "done"]

\* lines 258-264: as_completed yields a finished future, its file name is
\* appended
ParCollect(t) ==
    /\ par.mpc = "collect"
    /\ par.task[t] = "done"
    /\ t \notin par.yielded
    /\ par' = [par EXCEPT !.yielded = @ \cup {t}, !.pdf_files = Append(@, t)]

\* every future was yielded and the with block's shutdown(wait=True) is over
ParAllDone(q) ==
    /\ q.yielded = 1..q.n
    /\ \A t \in AgentPapers : q.task[t] \in {"none", "done"}

\* lines 267-269: leave the with block, return pdf_files
ParReturn ==
    /\ par.mpc = "collect"
    /\ ParAllDone(par)
    /\ par' = [par EXCEPT !.mpc = "returned"]

(***************************************************************************)
(* AsyncResearchAgent.search_and_summarize_async (Agents/main.py lines     *)
(* 316-367) with an asyncio.Semaphore(semaphore_limit).                    *)
(***************************************************************************)
\* the agent has searched and parsed n papers (lines 322-331)
AsyStart(semaphore_limit, n) ==
    [mpc |-> "start",                \* the coroutine: start, gather, returned
     semaphore_limit |-> semaphore_limit,
     n |-> n,
     value |-> semaphore_limit,      \* the semaphore's counter
     waiters |-> <<>>,               \* tasks waiting in acquire, first come first
     task |-> [t \in AgentPapers |-> "none"],
                                     \* none, created, waiting, summarise, pdf, done
     created |-> {},                 \* papers whose create_pdf built the file
     successful_files |-> <<>>]

AsyIdle == asy = AsyStart(1, 0)

\* papers inside the async with block
AsyInside(q) == {t \in AgentPapers : q.task[t] \in {"summarise", "pdf"}}

\* lines 334-339: gather makes a task of every coroutine
AsyGather ==
    /\ asy.mpc = "start"
    /\ asy' = [asy EXCEPT !.mpc = "gather",
                          !.task = [t \in AgentPapers |->
                                       IF t <= asy.n THEN "created" ELSE "none"]]

\* a semaphore that lets every task in
SemaphoreFreeAlways(q) == TRUE

\* Semaphore.acquire goes through at once when the counter is positive and
\* nobody waits
SemaphoreFree(q) == q.value > 0 /\ q.waiters = <<>>

\* line 349: async with self.semaphore, the semaphore is free
AsyAcquire(t) ==
    /\ asy.task[t] = "created"
    /\ SemaphoreFree(asy)
    /\ asy' = [asy EXCEPT !.value = @ - 1, !.task[t] = "summarise"]

\* line 349: the semaphore is taken, the task waits in line
AsyWait(t) ==
    /\ asy.task[t] = "created"
    /\ ~ SemaphoreFree(asy)
    /\ asy' = [asy EXCEPT !.waiters = Append(@, t), !.task[t] = "waiting"]

\* lines 356-358: the executor's summarize_paper returned
AsySummarised(t) ==
    /\ asy.task[t] = "summarise"
    /\ asy' = [asy EXCEPT !.task[t] = "pdf"]

\* what leaving the async with block does to the semaphore: the counter
\* goes up, and the first waiter, woken, takes it down again and enters
Release(q) ==
    IF q.waiters = <<>> THEN [q EXCEPT !.value = @ + 1]
    ELSE [q EXCEPT !.waiters = Tail(@), !.task[Head(q.waiters)] = "summarise"]

\* lines 361-367: the executor's create_pdf returned having built the
\* file; the block is left, the task returns filename
AsyPdfOk(t) ==
    /\ asy.task[t] = "pdf"
    /\ asy' = Release([asy EXCEPT !.task[t] = "done", !.created = @ \cup {t}])

\* lines 361-367: create_pdf failed and logged it; the same otherwise
AsyPdfFails(t) ==
    /\ asy.task[t] = "pdf"
    /\ asy' = Release([asy EXCEPT !.task[t] = "done"])

\* lines 339-345: gather returns when every task is done; the strings among
\* the results are the successful files
AsyReturn ==
    /\ asy.mpc = "gather"
    /\ \A t \in 1..asy.n : asy.task[t] = "done"
    /\ asy' = [asy EXCEPT !.mpc = "returned",
                          !.successful_files = [t \in 1..asy.n |-> t]]

(***************************************************************************)
(* The database tools (Agents/database_tools.py): one SQLite file with the *)
(* papers table.  A row keeps the columns the query reads: arxiv_id,       *)
(* title (a word) and abstract ("null", or a text of at most or of more    *)
(* than 300 characters about the title's word).                            *)
(***************************************************************************)
MaxRows == 2

\* LIMIT 20 of the SELECT (line 145)
QueryLimit == 20

Words == {"ledger", "proof"}

ArxivIds == {"null", "2501.00001"}

Abstracts == {"null", "short", "long"}

PaperRows == [arxiv_id : ArxivIds, title : Words, abstract : Abstracts]

\* the names the module binds: its imports (lines 2-4) and its functions
ModuleNames ==
    {"sqlite3", "json", "tool", "create_research_database",
     "save_paper_to_database", "query_research_database"}

DbInit ==
    /\ db = [tables |-> FALSE, papers |-> <<>>, status |-> "none"]
    /\ qry = [outcome |-> "none", value |-> "none", failed |-> FALSE,
              results_count |-> 0]

\* lines 19-71: create_research_database; sqlite3.connect raises when the
\* path cannot be opened
CreateDatabase(path_ok) ==
    /\ db' = IF path_ok
             THEN [db EXCEPT !.tables = TRUE,
                             !.status = "Research database created successfully"]
             ELSE [db EXCEPT !.status = "Error creating database"]
    /\ UNCHANGED qry

\* INSERT OR REPLACE (line 94): a row with the same non-NULL arxiv_id is
\* deleted, the new row gets the next id
InsertOrReplace(papers, row) ==
    Append(FilterSeq(papers, {r \in Range(papers) :
                                 row.arxiv_id = "null" \/ r.arxiv_id # row.arxiv_id}),
           row)

\* lines 86-119: save_paper_to_database; json.loads raises on a malformed
\* string, connect on a bad path, the INSERT on a missing table or on a
\* NULL title (title TEXT NOT NULL, line 28); every exception is caught
SavePaper(json_ok, path_ok, arxiv_id, title, summary) ==
    /\ Len(InsertOrReplace(db.papers,
              [arxiv_id |-> arxiv_id, title |-> title, abstract |-> summary]))
           <= MaxRows
    /\ db' = IF json_ok /\ path_ok /\ db.tables /\ title # "null"
             THEN [db EXCEPT
                      !.papers = InsertOrReplace(@,
                          [arxiv_id |-> arxiv_id, title |-> title,
                           abstract |-> summary]),
                      !.status = "Paper saved to database"]
             ELSE [db EXCEPT !.status = "Error saving paper"]
    /\ UNCHANGED qry

\* lines 139-146: the rows the SELECT returns for '%query%'; the empty
\* query matches every title.  The rows are taken in rowid order: the
\* ORDER BY columns are equal in every row kept here.
Matching(papers, query) ==
    LET found == FilterSeq(papers, {r \in Range(papers) :
                                       query = "" \/ r.title = query})
    IN SubSeq(found, 1, Min(Len(found), QueryLimit))

\* lines 135-160: what makes the try block raise: connect on a bad path,
\* the SELECT on a missing table, len(row[2]) on a NULL abstract
QueryRaises(path_ok, query) ==
    \/ ~path_ok
    \/ ~db.tables
    \/ \E r \in Range(Matching(db.papers, query)) : r.abstract = "null"

\* lines 172-174: the handler reads the name `logger` before it returns
ExceptHandler ==
    IF "logger" \in ModuleNames
    THEN [outcome |-> "returned", value |-> "Error querying database:"]
    ELSE [outcome |-> "raised", value |-> "NameError"]

\* lines 134-174: query_research_database
QueryCall(path_ok, query) ==
    /\ qry' = IF QueryRaises(path_ok, query)
              THEN [outcome |-> ExceptHandler.outcome,
                    value |-> ExceptHandler.value,
                    failed |-> TRUE, results_count |-> 0]
              ELSE [outcome |-> "returned", value |-> "json", failed |-> FALSE,
                    results_count |-> Len(Matching(db.papers, query))]
    /\ UNCHANGED db

(***************************************************************************)
(* get_blockchain_research_topics (latest_topic_gatherer.py lines 9-83).   *)
(* An argument is a Python value: its type and, for numbers, its value     *)
(* (a float's value is its integral part, True is 1 and False is 0).  The  *)
(* constructors of lines 24-46 build objects and contact nothing.          *)
(***************************************************************************)
MaxTopicArg == 2
MaxTopicLines == 3

TopicArgs ==
    [type : {"int", "float"}, val : (0 - 1)..MaxTopicArg]
        \cup [type : {"bool"}, val : 0..1]
        \cup [type : {"str", "NoneType"}, val : {0}]

\* isinstance(max_results, int): bool is a subclass of int
isinstance_int(x) == x.type \in {"int", "bool"}

\* a validation that only looks at the type
RejectsNonInt(x) == ~isinstance_int(x)

\* line 20: not isinstance(max_results, int) or max_results < 1
Rejects(x) == ~isinstance_int(x) \/ x.val < 1

\* s[:n] of Python
SliceTo(s, n) ==
    IF n >= 0 THEN SubSeq(s, 1, Min(n, Len(s)))
    ELSE SubSeq(s, 1, Len(s) + n)

\* the lines of the LLM's answer: a blank line or a topic line
TopicLines == {"", "1. topic", "2. topic"}

TopicTexts == SeqsUpTo(TopicLines, MaxTopicLines)

\* line 80: the stripped lines that are not empty
ParseTopics(topics_text) == FilterSeq(topics_text, TopicLines \ {""})

TopStart ==
    [pc |-> "idle", max_results |-> [type |-> "NoneType", val |-> 0],
     topics_text |-> <<>>,
     outcome |-> "none", value |-> <<>>,
     failure |-> "none", webRequests |-> 0, llmCalls |-> 0]

TopicsInit == top = TopStart

\* lines 20-21: the argument is rejected
TopicsCallRaises(x) ==
    /\ top.pc = "idle"
    /\ Rejects(x)
    /\ top' = [TopStart EXCEPT !.max_results = x, !.outcome = "raised",
                               !.value = <<"ValueError">>]

\* lines 20-46: the argument passes, the model, the tool and the chain are
\* constructed
TopicsCall(x) ==
    /\ top.pc = "idle"
    /\ ~Rejects(x)
    /\ top' = [TopStart EXCEPT !.pc = "agent", !.max_results = x]

\* lines 49-55: initialize_agent returns
TopicsAgentOk ==
    /\ top.pc = "agent"
    /\ top' = [top EXCEPT !.pc = "search"]

\* lines 56-57: initialize_agent raises
TopicsAgentFails ==
    /\ top.pc = "agent"
    /\ top' = [top EXCEPT !.pc = "idle", !.outcome = "returned",
                          !.failure = "agent",
                          !.value = <<"Error initializing agent">>]

\* lines 62-65: the GET answers 200
TopicsSearchOk ==
    /\ top.pc = "search"
    /\ top' = [top EXCEPT !.pc = "invoke", !.webRequests = @ + 1]

\* lines 66-67: the GET answers another status
TopicsSearchStatus ==
    /\ top.pc = "search"
    /\ top' = [top EXCEPT !.pc = "idle", !.outcome = "returned",
                          !.failure = "search", !.webRequests = @ + 1,
                          !.value = <<"Error during search: HTTP">>]

\* lines 68-69: the GET raises a RequestException
TopicsSearchRaises ==
    /\ top.pc = "search"
    /\ top' = [top EXCEPT !.pc = "idle", !.outcome = "returned",
                          !.failure = "search", !.webRequests = @ + 1,
                          !.value = <<"Error during search">>]

\* lines 74-81: the chain answers, the answer is parsed and cut
TopicsInvokeOk(topics_text) ==
    /\ top.pc = "invoke"
    /\ top' = [top EXCEPT !.pc = "idle", !.outcome = "returned",
                          !.llmCalls = @ + 1,
                          !.topics_text = topics_text,
                          !.value = SliceTo(ParseTopics(topics_text),
                                            top.max_results.val)]

\* lines 82-83: the chain raises, or its answer has no text to strip
TopicsInvokeRaises ==
    /\ top.pc = "invoke"
    /\ top' = [top EXCEPT !.pc = "idle", !.outcome = "returned",
                          !.failure = "processing", !.llmCalls = @ + 1,
                          !.value = <<"Error processing topics">>]

(***************************************************************************)
(* summarize_text (Summarizer_of_data.py lines 7-39).  The LLM's answer is *)
(* a sequence of pieces: a newline, a space, some other text, or the       *)
(* phrase "bullet points" in lower case or with other letter case, with or *)
(* without the colon that follows it.                                      *)
(***************************************************************************)
MaxOutputLen == 3

\* 'bullet points:' as the split of line 30 spells it
BULLETS_COLON == 5
\* 'bullet points' in lower case, no colon after it
BULLETS == 6
\* the phrase with other letter case ('Bullet Points:'), with the colon
BULLETS_CASED_COLON == 7
\* the phrase with other letter case, no colon after it
BULLETS_CASED == 8
\* the '* ' put before each line (line 32)
STAR == 9

\* the text 'Summarization failed.' (line 39), which no answer holds
FAILED == 30

Summarization_failed == <<FAILED>>

LlmOutputs ==
    SeqsUpTo({NL, SP, CH, BULLETS_COLON, BULLETS, BULLETS_CASED_COLON,
              BULLETS_CASED}, MaxOutputLen)

\* line 29: "bullet points" in str(summary).lower()
MentionsBulletPoints(summary) ==
    \E i \in DOMAIN summary :
        summary[i] \in {BULLETS_COLON, BULLETS, BULLETS_CASED_COLON, BULLETS_CASED}

\* str.split(sep): the pieces between the occurrences of sep
RECURSIVE str_split(_, _)
str_split(s, sep) ==
    IF \E i \in DOMAIN s : s[i] = sep
    THEN LET i == CHOOSE j \in DOMAIN s :
                      s[j] = sep /\ \A k \in 1..(j - 1) : s[k] # sep
         IN <<SubSeq(s, 1, i - 1)>> \o str_split(SubSeq(s, i + 1, Len(s)), sep)
    ELSE <<s>>

\* "\n".join(lines)
RECURSIVE join(_)
join(lines) ==
    IF lines = <<>> THEN <<>>
    ELSE IF Len(lines) = 1 THEN lines[1]
    ELSE lines[1] \o <<NL>> \o join(Tail(lines))

\* lines 31-32: every line stripped and prefixed with '* '
BulletLines(summary) ==
    LET summary_lines == str_split(summary, NL)
    IN join([i \in DOMAIN summary_lines |-> <<STAR>> \o strip(summary_lines[i])])

\* lines 29-39 for an answer the chain returned: [1] of line 30 raises
\* IndexError when the split found no 'bullet points:', and line 37 catches it
summarize_text(summary) ==
    IF MentionsBulletPoints(summary)
    THEN IF Len(str_split(summary, BULLETS_COLON)) >= 2
         THEN [raised |-> "none",
               result |-> BulletLines(str_split(summary, BULLETS_COLON)[2])]
         ELSE [raised |-> "IndexError", result |-> Summarization_failed]
    ELSE [raised |-> "none", result |-> summary]

SmzStart == [invoked |-> "none", summary |-> <<>>, raised |-> "none", result |-> <<>>]

SummarizeInit == smz = SmzStart

\* lines 26-36: chain.invoke returns an answer
SummarizeCall(summary) ==
    /\ smz.invoked = "none"
    /\ smz' = [invoked |-> "ok", summary |-> summary,
               raised |-> summarize_text(summary).raised,
               result |-> summarize_text(summary).result]

\* lines 26, 37-39: chain.invoke raises
SummarizeCallLlmFails ==
    /\ smz.invoked = "none"
    /\ smz' = [invoked |-> "failed", summary |-> <<>>, raised |-> "Exception",
               result |-> Summarization_failed]

ToolsIdle == DbInit /\ TopicsInit /\ SummarizeInit

(***************************************************************************)
(* Specifications of the single components.                                *)
(***************************************************************************)
\* fetch_paper called again and again with one history file
PipeIdle == pipe = PipeStart("cli", 1, FALSE)

AgentsIdle == ParIdle /\ AsyIdle

InitFetch ==
    FetchInit /\ AssetInit /\ ReserveInit /\ ExtractInit /\ PipeIdle /\ AgentsIdle /\ ToolsIdle

NextFetch ==
    \/ (FetchCall /\ UNCHANGED <<assetVars, reserveVars, extractVars, pipeVars, agentVars, toolVars>>)
    \/ (FetchCallSearchFails /\ UNCHANGED <<assetVars, reserveVars, extractVars, pipeVars, agentVars, toolVars>>)
    \/ (FetchStep /\ UNCHANGED <<assetVars, reserveVars, extractVars, pipeVars, agentVars, toolVars>>)

SpecFetch == InitFetch /\ [][NextFetch]_vars

\* create_asset called again and again
NextAsset ==
    \/ (AssetCallAny /\ UNCHANGED <<fetchVars, reserveVars, extractVars, pipeVars, agentVars, toolVars>>)
    \/ (AssetStep /\ UNCHANGED <<fetchVars, reserveVars, extractVars, pipeVars, agentVars, toolVars>>)

SpecAsset == InitFetch /\ [][NextAsset]_vars

\* reserve_address_from_cid called again and again, on any instance
NextReserve ==
    \/ (ReserveCallReturns /\ UNCHANGED <<fetchVars, assetVars, extractVars, pipeVars, agentVars, toolVars>>)
    \/ (ReserveCallRaises /\ UNCHANGED <<fetchVars, assetVars, extractVars, pipeVars, agentVars, toolVars>>)

SpecReserve == InitFetch /\ [][NextReserve]_vars

\* a content file is written by fetch_paper and read by extract_text_from_file
NextExtract ==
    \/ (XWritePaper /\ UNCHANGED <<fetchVars, assetVars, reserveVars, pipeVars, agentVars, toolVars>>)
    \/ (XClose /\ UNCHANGED <<fetchVars, assetVars, reserveVars, pipeVars, agentVars, toolVars>>)
    \/ (XExtract /\ UNCHANGED <<fetchVars, assetVars, reserveVars, pipeVars, agentVars, toolVars>>)

SpecExtract == InitFetch /\ [][NextExtract]_vars

\* one run of the CLI (max_results=1) or of the dashboard (the number of
\* papers the user picked); an earlier run may have left a history file and
\* a content file behind, and a crashed run a file in the summaries directory
InitPipe ==
    /\ \E earlier \in BOOLEAN :
          /\ history = IF earlier THEN <<2>> ELSE <<>>
          /\ outFile = IF earlier THEN <<2>> ELSE <<>>
    /\ fpc = "idle" /\ fetched = {} /\ selected = <<>> /\ fidx = 0 /\ fcalls = 0
    /\ fraised = "none" /\ histAtCall = <<>> /\ oldFile = <<>> /\ allDistinct = TRUE
    /\ AssetInit /\ ReserveInit /\ ExtractInit /\ AgentsIdle /\ ToolsIdle
    /\ \E mode \in {"cli", "dash"}, max_results \in 1..MaxResultsArg, leftOver \in BOOLEAN :
          /\ mode = "cli" => max_results = 1
          /\ pipe = PipeStart(mode, max_results, leftOver)

NextPipe ==
    \/ PFetchCall \/ PFetchStep \/ PFetchReturned
    \/ PExtract
    \/ PSummarise \/ PSavePdfOk \/ PSavePdfRaises \/ PSummariseDone
    \/ PListDir \/ PListDirRaises
    \/ PUploadCid \/ PUploadNone \/ PUploadRaises
    \/ PNoCid \/ PMetadata \/ PReserveUrl
    \/ PMint \/ PMintStep \/ PMintReturned \/ PMintRaised
    \/ PFinish

SpecPipe == InitPipe /\ [][NextPipe]_vars

OthersIdle ==
    FetchInit /\ AssetInit /\ ReserveInit /\ ExtractInit /\ PipeIdle /\ ToolsIdle

\* one call of ParallelResearchAgent.search_and_summarize
InitPar ==
    /\ OthersIdle /\ AsyIdle
    /\ \E max_workers \in 0..MaxWorkers, n \in 0..MaxAgentPapers :
          par = ParStart(max_workers, n)

ParOthers == <<fetchVars, assetVars, reserveVars, extractVars, pipeVars, asy, toolVars>>

NextPar ==
    \/ (ParPoolRaises /\ UNCHANGED ParOthers)
    \/ (ParPool /\ UNCHANGED ParOthers)
    \/ (ParSubmit /\ UNCHANGED ParOthers)
    \/ (ParSubmitted /\ UNCHANGED ParOthers)
    \/ (\E t \in AgentPapers : ParTaskStart(t) /\ UNCHANGED ParOthers)
    \/ (\E t \in AgentPapers : ParTaskSummarised(t) /\ UNCHANGED ParOthers)
    \/ (\E t \in AgentPapers : ParTaskPdfOk(t) /\ UNCHANGED ParOthers)
    \/ (\E t \in AgentPapers : ParTaskPdfFails(t) /\ UNCHANGED ParOthers)
    \/ (\E t \in AgentPapers : ParCollect(t) /\ UNCHANGED ParOthers)
    \/ (ParReturn /\ UNCHANGED ParOthers)

SpecPar == InitPar /\ [][NextPar]_vars

\* one call of AsyncResearchAgent.search_and_summarize_async; the event
\* loop runs every task that can run, and every executor call returns
InitAsy ==
    /\ OthersIdle /\ ParIdle
    /\ \E semaphore_limit \in 0..MaxSemaphore, n \in 0..MaxAgentPapers :
          asy = AsyStart(semaphore_limit, n)

AsyOthers == <<fetchVars, assetVars, reserveVars, extractVars, pipeVars, par, toolVars>>

NextAsy ==
    \/ (AsyGather /\ UNCHANGED AsyOthers)
    \/ (\E t \in AgentPapers : AsyAcquire(t) /\ UNCHANGED AsyOthers)
    \/ (\E t \in AgentPapers : AsyWait(t) /\ UNCHANGED AsyOthers)
    \/ (\E t \in AgentPapers : AsySummarised(t) /\ UNCHANGED AsyOthers)
    \/ (\E t \in AgentPapers : AsyPdfOk(t) /\ UNCHANGED AsyOthers)
    \/ (\E t \in AgentPapers : AsyPdfFails(t) /\ UNCHANGED AsyOthers)
    \/ (AsyReturn /\ UNCHANGED AsyOthers)

SpecAsy == InitAsy /\ [][NextAsy]_vars /\ WF_vars(NextAsy)

\* the database tools called in any order on one database file
QueryOthers ==
    <<fetchVars, assetVars, reserveVars, extractVars, pipeVars, agentVars, top, smz>>

NextQuery ==
    \/ (\E path_ok \in BOOLEAN : CreateDatabase(path_ok) /\ UNCHANGED QueryOthers)
    \/ (\E json_ok, path_ok \in BOOLEAN, arxiv_id \in ArxivIds,
           title \in Words \cup {"null"}, summary \in Abstracts :
           SavePaper(json_ok, path_ok, arxiv_id, title, summary)
               /\ UNCHANGED QueryOthers)
    \/ (\E path_ok \in BOOLEAN, query \in Words \cup {""} :
           QueryCall(path_ok, query) /\ UNCHANGED QueryOthers)

SpecQuery == InitFetch /\ [][NextQuery]_vars

\* get_blockchain_research_topics called again and again
TopicsOthers ==
    <<fetchVars, assetVars, reserveVars, extractVars, pipeVars, agentVars, db, qry, smz>>

NextTopics ==
    \/ (\E x \in TopicArgs : TopicsCallRaises(x) /\ UNCHANGED TopicsOthers)
    \/ (\E x \in TopicArgs : TopicsCall(x) /\ UNCHANGED TopicsOthers)
    \/ (TopicsAgentOk /\ UNCHANGED TopicsOthers)
    \/ (TopicsAgentFails /\ UNCHANGED TopicsOthers)
    \/ (TopicsSearchOk /\ UNCHANGED TopicsOthers)
    \/ (TopicsSearchStatus /\ UNCHANGED TopicsOthers)
    \/ (TopicsSearchRaises /\ UNCHANGED TopicsOthers)
    \/ (\E topics_text \in TopicTexts :
           TopicsInvokeOk(topics_text) /\ UNCHANGED TopicsOthers)
    \/ (TopicsInvokeRaises /\ UNCHANGED TopicsOthers)

SpecTopics == InitFetch /\ [][NextTopics]_vars

\* one call of summarize_text
SummarizeOthers ==
    <<fetchVars, assetVars, reserveVars, extractVars, pipeVars, agentVars, db, qry, top>>

NextSummarize ==
    \/ (\E summary \in LlmOutputs : SummarizeCall(summary) /\ UNCHANGED SummarizeOthers)
    \/ (SummarizeCallLlmFails /\ UNCHANGED SummarizeOthers)

SpecSummarize == InitFetch /\ [][NextSummarize]_vars

(***************************************************************************)
(* C1: a fetch_paper call never selects (downloads, writes, records) a     *)
(* paper whose pdf_url was in the history file when the call started, and  *)
(* when every result list has distinct pdf_urls no pdf_url is in the       *)
(* history file twice.                                                     *)
(***************************************************************************)
C1_NoRefetch ==
    /\ \A i \in DOMAIN selected : selected[i] \notin Range(histAtCall)
    /\ fpc # "idle" => Range(outFile) \cap Range(histAtCall) = {}
    /\ \A i \in DOMAIN history : i > Len(histAtCall) => history[i] \notin Range(histAtCall)
    /\ allDistinct => NoDup(history)

\* a second call, started with a non-empty history, has recorded a paper
C1_Witness ==
    /\ fcalls = 2
    /\ histAtCall # <<>>
    /\ Len(history) > Len(histAtCall)
    /\ allDistinct

(***************************************************************************)
(* C2: create_asset signs, then submits, then waits for the confirmation,  *)
(* in that order; it returns a transaction id only after the wait for that *)
(* same transaction has completed, and returns none when the submission or *)
(* the confirmation fails.                                                 *)
(***************************************************************************)
IsPrefix(s, t) == Len(s) <= Len(t) /\ SubSeq(t, 1, Len(s)) = s

\* C2: sign, submit, wait, return, in that order; an id is returned only
\* for a confirmed transaction, and none after an exception
C2_SignSubmitWaitReturn ==
    /\ IsPrefix(alog, <<"build", "sign", "submit", "wait", "return">>)
    /\ aret # 0 => /\ aret = atxid
                   /\ aret \in confirmed
                   /\ aret \in DOMAIN sent
                   /\ sent[aret] = atxn
                   /\ alog = <<"build", "sign", "submit", "wait", "return">>
    /\ araised => aret = 0 /\ apc = "idle"

\* a call has returned the id of a confirmed transaction
C2_Witness == apc = "idle" /\ aret # 0 /\ aret \in confirmed /\ acalls = 2

ContainsTitleLine(entry, k) ==
    \E j \in DOMAIN entry :
        /\ entry[j] = TITLE
        /\ j = 1 \/ entry[j - 1] = NL
        /\ j + 2 <= Len(entry)
        /\ entry[j + 1] = SP
        /\ entry[j + 2] = TitleChar(k)

\* C8: n papers in the file give n entries, entry k with the title line of
\* paper k
C8_OneEntryPerPaper ==
    xpc = "done" =>
        /\ Len(xResult) = xN
        /\ \A k \in 1..xN : ContainsTitleLine(xResult[k], k)

\* what the code does instead: the section that holds the first paper's
\* title is always dropped, so no entry ever contains it
C8_FirstTitleLost ==
    xpc = "done" => \A e \in DOMAIN xResult : ~ ContainsTitleLine(xResult[e], 1)

(***************************************************************************)
(* C4: in both pipelines the stages run in the order fetch, extract,       *)
(* summarise-and-write-PDF for every paper, then pin-and-mint per file: no *)
(* file is pinned before every summary PDF of the run is written, and each *)
(* file's asset-creation transaction is built after its pin has returned.  *)
(***************************************************************************)
StageRank(e) ==
    IF e = "fetch" THEN 1 ELSE IF e = "extract" THEN 2 ELSE IF e = "pdf" THEN 3 ELSE 4

\* C4: the stages are in order, every summary PDF is written before the
\* first pin, and a transaction is built only for a file already pinned
C4_StagesInOrder ==
    LET ev == pipe.events
    IN  /\ \A a, b \in DOMAIN ev : a < b => StageRank(ev[a]) <= StageRank(ev[b])
        /\ \A a \in DOMAIN ev : (ev[a] \in {"fetch", "extract"}) = (a <= 2)
        /\ ev # <<>> => ev[1] = "fetch"
        /\ Len(ev) >= 2 => ev[2] = "extract"
        /\ (\E a \in DOMAIN ev : ev[a] = "pin") =>
               pipe.written = Len(pipe.paper_contents)
        /\ \A a \in DOMAIN ev : ev[a] = "build" => a > 1 /\ ev[a - 1] = "pin"
        /\ pipe.builtFor \subseteq pipe.pinned
        /\ pipe.ppc \in {"mint", "minting"} => CurrentFile \in pipe.pinned

\* a dashboard run wrote two summary PDFs and minted two files
C4_Witness ==
    /\ pipe.mode = "dash"
    /\ pipe.ppc = "done"
    /\ pipe.written >= 2
    /\ Cardinality(pipe.minted) >= 2

(***************************************************************************)
(* C5: an asset is minted for a file only if pinning it returned a CID:    *)
(* when upload_metadata returns None neither create_metadata nor           *)
(* create_asset is called for the file, the loop goes on to the next file, *)
(* and there are as many transaction links as files whose pin returned a   *)
(* CID and whose mint returned.                                            *)
(***************************************************************************)
FileIndex(file) ==
    CHOOSE k \in DOMAIN pipe.research_paper_file_names :
        pipe.research_paper_file_names[k] = file

\* C5: metadata and asset only for files whose pin returned a CID, the loop
\* moves past a refused file, one link per minted file
C5_MintOnlyPinned ==
    /\ pipe.metadataFor \subseteq pipe.pinned
    /\ pipe.builtFor \subseteq pipe.pinned
    /\ pipe.minted \subseteq pipe.builtFor
    /\ pipe.refused \cap (pipe.metadataFor \cup pipe.builtFor) = {}
    /\ \A file \in pipe.refused :
           \/ FileIndex(file) < pipe.f
           \/ FileIndex(file) = pipe.f /\ pipe.ppc = "gotcid"
    /\ Len(pipe.links) = Cardinality(pipe.minted)
    /\ \A k \in DOMAIN pipe.links : pipe.links[k] \in confirmed

\* the pin of one file returned None and a later file was minted
C5_Witness ==
    /\ pipe.ppc = "done"
    /\ \E r \in pipe.refused, m \in pipe.minted : FileIndex(r) < FileIndex(m)
    /\ Len(pipe.links) = 1

(***************************************************************************)
(* C9: whenever the dashboard shows "Fetching Research Papers" completed   *)
(* with "Found and downloaded N paper(s)", fetch_paper has downloaded and  *)
(* written N papers to the content file during this run.                   *)
(***************************************************************************)
C9_ShownIsFetched ==
    (pipe.mode = "dash" /\ pipe.step[1] = "completed") =>
        pipe.fetchedNow = pipe.shown[1]

C6_BoundedAndJoined ==
    /\ Cardinality(ParRunning(par)) <= par.max_workers
    /\ par.mpc = "returned" =>
           /\ \A t \in 1..par.n : par.task[t] = "done"
           /\ Len(par.pdf_files) = par.n

\* three papers went through a pool of two threads, two of them at once
C6_Witness ==
    /\ par.max_workers = 2
    /\ par.n = 3
    /\ Cardinality(ParRunning(par)) = 2
    /\ \E t \in AgentPapers : par.task[t] = "queued"

(***************************************************************************)
(* C7: AsyncResearchAgent.search_and_summarize_async has at most           *)
(* semaphore_limit papers inside the summarise-and-create-PDF section at   *)
(* the same time, and every paper task eventually acquires the semaphore   *)
(* and finishes, given that every LLM call and PDF write returns.          *)
(***************************************************************************)
AsyBounded == Cardinality(AsyInside(asy)) <= asy.semaphore_limit

AsyAllFinished == \A t \in 1..asy.n : asy.task[t] = "done"

\* C7 as stated, for every semaphore_limit: the section holds at most
\* semaphore_limit papers and every paper task eventually finishes
C7_BoundedAndLive == []AsyBounded /\ <>AsyAllFinished

\* C7 for the agents whose semaphore_limit is at least 1: the section holds
\* at most semaphore_limit papers, and every paper task eventually finishes
\* and the method returns
C7_BoundedAndLiveFromOne ==
    /\ []AsyBounded
    /\ (asy.semaphore_limit >= 1) => <>(asy.mpc = "returned" /\ AsyAllFinished)

\* three papers, one permit: a paper waits while another is inside, and
\* a paper that waited has finished
C7_Witness ==
    /\ asy.semaphore_limit = 1
    /\ asy.n = 3
    /\ Cardinality(AsyInside(asy)) = 1
    /\ asy.waiters # <<>>
    /\ \E t \in AgentPapers : asy.task[t] = "done"

(***************************************************************************)
(* C13: after any fetch_paper call returns, the output file holds only     *)
(* papers selected by that call; content an earlier call wrote is never    *)
(* still in the file.                                                      *)
(***************************************************************************)
FetchReturned == fpc = "idle" /\ fcalls > 0

\* C13 as stated, for every call that has returned
C13_OnlyThisCall ==
    FetchReturned =>
        /\ IsPrefix(outFile, selected)
        /\ Range(outFile) \cap Range(oldFile) = {}

\* C13 for the calls that got as far as selecting papers; a call that ends
\* before (no results, no new results, a failed search) leaves the file as
\* it was
C13_OnlyThisCallOrUntouched ==
    FetchReturned =>
        IF fraised \in {"ValueError", "Exception"}
        THEN outFile = oldFile
        ELSE /\ IsPrefix(outFile, selected)
             /\ Range(outFile) \cap Range(oldFile) = {}

\* a call that selected papers has returned and replaced the content an
\* earlier call wrote
C13_Witness ==
    /\ FetchReturned
    /\ fraised = "ok"
    /\ oldFile # <<>>
    /\ outFile # <<>>

(***************************************************************************)
(* C14: a pdf_url goes to the history file only after the paper was        *)
(* downloaded and written to the output file; when the download of the     *)
(* k-th selected paper fails, papers k and later are neither written nor   *)
(* recorded, the papers before k stay written and recorded, and the call   *)
(* returns without raising.                                                *)
(***************************************************************************)
Recorded == SubSeq(history, Len(histAtCall) + 1, Len(history))

C14_WriteThenRecord ==
    /\ IsPrefix(histAtCall, history)
    /\ fraised \notin {"ValueError", "Exception"} =>
           /\ IsPrefix(Recorded, outFile)
           /\ IsPrefix(outFile, selected)
           /\ Len(outFile) - Len(Recorded) <= 1
           /\ Len(outFile) > Len(Recorded) => fpc = "save"
    /\ fraised = "RequestException" =>
           /\ fpc = "idle"
           /\ fidx \in DOMAIN selected
           /\ outFile = SubSeq(selected, 1, fidx - 1)
           /\ Recorded = SubSeq(selected, 1, fidx - 1)

\* the download of the second selected paper failed
C14_Witness ==
    /\ fraised = "RequestException"
    /\ fidx = 2
    /\ Len(outFile) = 1

(***************************************************************************)
(* C15: for every asset the CLI or dashboard pipeline mints, the reserve   *)
(* address, the template URL and the metadata's ipfs image link all come   *)
(* from the CID that pinning that same file returned; no asset carries a   *)
(* reserve address that comes from another file's CID.                     *)
(***************************************************************************)
\* the file an asset was built for: the asset_name inside its metadata
FileOfTxn(txn) == txn.metadata_hash.sha256[1]

C15_OneCidPerAsset ==
    \A k \in DOMAIN sent :
        LET file == FileOfTxn(sent[k])
            cid  == CidOfFile(file)
        IN /\ file \in pipe.pinned
           /\ sent[k].metadata_hash =
                  create_metadata(DefaultAccount, file, Description(pipe.mode), cid)
           /\ sent[k].reserve = reserve_address(DefaultAccount, cid)
           /\ sent[k].url = create_url_from_cid(cid)
           /\ \A other \in Range(pipe.research_paper_file_names) :
                  CidOfFile(other) # cid =>
                      sent[k].reserve # reserve_address(DefaultAccount, CidOfFile(other))

\* two files with different CIDs were pinned and minted in one run
C15_Witness ==
    /\ Len(sent) = 2
    /\ sent[1].reserve # sent[2].reserve
    /\ sent[1].metadata_hash # sent[2].metadata_hash

(***************************************************************************)
(* C17: every filename in the list search_and_summarize returns names a    *)
(* PDF that create_pdf built, so the logged "Generated N PDFs" count is    *)
(* the number of PDFs created in the run.                                  *)
(***************************************************************************)
C17_ReturnedAreCreated ==
    par.mpc = "returned" =>
        /\ Range(par.pdf_files) \subseteq par.created
        /\ Len(par.pdf_files) = Cardinality(par.created)

(***************************************************************************)
(* C11: query_research_database never raises: any failure while opening    *)
(* the database, running the query or building the result makes it return  *)
(* a string that starts with 'Error querying database:'.                   *)
(***************************************************************************)
C11_NeverRaises ==
    /\ qry.outcome # "raised"
    /\ qry.failed => qry.outcome = "returned" /\ qry.value = "Error querying database:"

(***************************************************************************)
(* C12: get_blockchain_research_topics raises ValueError for every         *)
(* max_results that is not an integer >= 1, before any web request or LLM  *)
(* call; for every valid max_results it returns a list with at most        *)
(* max_results entries on success, or with exactly one entry starting with *)
(* 'Error' on a search or processing failure.                              *)
(***************************************************************************)
ErrorEntries ==
    {"Error initializing agent", "Error during search: HTTP",
     "Error during search", "Error processing topics"}

\* an integer (Python counts True as the integer 1) that is at least 1
IntegerAtLeastOne(x) == x.type \in {"int", "bool"} /\ x.val >= 1

C12_ValidatedThenList ==
    /\ top.outcome = "raised" =>
           /\ ~IntegerAtLeastOne(top.max_results)
           /\ top.value = <<"ValueError">>
           /\ top.webRequests = 0 /\ top.llmCalls = 0
    /\ top.pc # "idle" => IntegerAtLeastOne(top.max_results)
    /\ top.outcome = "returned" =>
           /\ IntegerAtLeastOne(top.max_results)
           /\ top.failure = "none" =>
                  /\ Len(top.value) <= top.max_results.val
                  /\ top.webRequests = 1 /\ top.llmCalls = 1
           /\ top.failure \in {"search", "processing", "agent"} =>
                  /\ Len(top.value) = 1
                  /\ top.value[1] \in ErrorEntries

\* a call with max_results = 1 got an answer of two topics and returned one
C12_Witness ==
    /\ top.outcome = "returned"
    /\ top.failure = "none"
    /\ top.max_results = [type |-> "int", val |-> 1]
    /\ Len(ParseTopics(top.topics_text)) = 2
    /\ Len(top.value) = 1

(***************************************************************************)
(* C16: summarize_text returns 'Summarization failed.' only when the LLM   *)
(* invocation fails; when it succeeds it returns the bullet lines if the   *)
(* answer mentions 'bullet points' in any letter case, and otherwise the   *)
(* answer unchanged.                                                       *)
(***************************************************************************)
C16_FailedOnlyWhenLlmFails ==
    /\ smz.result = Summarization_failed => smz.invoked = "failed"
    /\ smz.invoked = "ok" /\ ~MentionsBulletPoints(smz.summary) =>
           smz.result = smz.summary
    /\ smz.invoked = "ok" /\ MentionsBulletPoints(smz.summary) =>
           /\ smz.result # <<>>
           /\ smz.result[1] = STAR

====
